---- MODULE Spec2Model ----
(***************************************************************************)
(* Model of bot.py: the RSS selection-and-publication pipeline             *)
(* (run_rss_once), the posted/drafts tables and the operator commands      *)
(* /post and /skip.                                                        *)
(*                                                                         *)
(* Text is a sequence of one-character strings.  The Bulgarian terms of    *)
(* the source are written in Latin transliteration.                        *)
(***************************************************************************)
EXTENDS Integers, Sequences, FiniteSets, TLC

(***************************************************************************)
(* Text: normalize, get_title_keywords, calc_similarity, score_entry       *)
(***************************************************************************)

UpperChars ==
    <<"A","B","C","D","E","F","G","H","I","J","K","L","M",
      "N","O","P","Q","R","S","T","U","V","W","X","Y","Z">>

LowerChars ==
    <<"a","b","c","d","e","f","g","h","i","j","k","l","m",
      "n","o","p","q","r","s","t","u","v","w","x","y","z">>

DigitChars ==
    <<"0","1","2","3","4","5","6","7","8","9">>

\* str.lower() on one character
LowerChar(c) ==
    IF \E i \in DOMAIN UpperChars : UpperChars[i] = c
    THEN LowerChars[CHOOSE i \in DOMAIN UpperChars : UpperChars[i] = c]
    ELSE c

\* the class \w of the regular expressions (for lower-cased text)
IsWordChar(c) ==
    \/ \E i \in DOMAIN LowerChars : LowerChars[i] = c
    \/ \E i \in DOMAIN DigitChars : DigitChars[i] = c
    \/ c = "_"

\* the class \s
IsSpaceChar(c) ==
    c = " "

\* re.sub(r"[^\w\s]", " ", text.lower())
StripPunct(text) ==
    [i \in DOMAIN text |->
        LET c == LowerChar(text[i])
        IN  IF IsWordChar(c) \/ IsSpaceChar(c) THEN c ELSE " "]

\* str.split(): the maximal runs of non-space characters, in order
RECURSIVE SplitFrom(_, _, _, _)
SplitFrom(text, i, cur, acc) ==
    IF i > Len(text)
    THEN IF cur = <<>> THEN acc ELSE Append(acc, cur)
    ELSE IF IsSpaceChar(text[i])
         THEN SplitFrom(text, i + 1, <<>>, IF cur = <<>> THEN acc ELSE Append(acc, cur))
         ELSE SplitFrom(text, i + 1, Append(cur, text[i]), acc)

Split(text) ==
    SplitFrom(text, 1, <<>>, <<>>)

RECURSIVE JoinWords(_)
JoinWords(ws) ==
    IF ws = <<>> THEN <<>>
    ELSE IF Len(ws) = 1 THEN ws[1]
    ELSE ws[1] \o <<" ">> \o JoinWords(Tail(ws))

\* re.sub(r"\s+", " ", text).strip(): runs of spaces become one space, and the
\* leading and trailing ones go
normalize(text) ==
    JoinWords(Split(StripPunct(text)))

\* variant: the words of any length
all_title_words(title) ==
    LET words == Split(normalize(title))
    IN  {words[i] : i \in DOMAIN words}

get_title_keywords(title) ==
    LET words == Split(normalize(title))
    IN  {words[i] : i \in {j \in DOMAIN words : Len(words[j]) > 2}}

Min(a, b) ==
    IF a <= b THEN a ELSE b

\* calc_similarity returns len(intersection) / min(len(set1), len(set2)), or 0.0;
\* the quotient is kept as the pair num/den (den > 0)
calc_similarity(title1, title2) ==
    LET set1 == get_title_keywords(title1)
        set2 == get_title_keywords(title2)
    IN  IF set1 = {} \/ set2 = {}
        THEN [num |-> 0, den |-> 1]
        ELSE [num |-> Cardinality(set1 \cap set2),
              den |-> Min(Cardinality(set1), Cardinality(set2))]

\* "term in text" on strings
Contains(text, term) ==
    \E i \in 1..(Len(text) - Len(term) + 1) :
        SubSeq(text, i, i + Len(term) - 1) = term

\* excerpts of the three term lists of the source, transliterated; "arest"
\* stands in all three as in the source, "es" (EC) is a substring of it
priority_boost ==
    << <<"a","r","e","s","t">>, <<"k","r","i","z","a">>,
       <<"c","e","n","i">>, <<"b","o","j">> >>

KEYWORDS ==
    << <<"e","s">>, <<"a","r","e","s","t">>, <<"k","r","i","z","a">>,
       <<"c","e","n","i">>, <<"k","r","i","z","a">> >>

HOT_TERMS ==
    << <<"a","r","e","s","t">>, <<"b","o","j">>, <<"c","e","n","i">>,
       <<"k","r","i","z","a">>, <<"t","o","k">> >>

\* variant: a term in the title and in the summary scores for both
RECURSIVE SumBothFields(_, _, _, _, _)
SumBothFields(terms, t_norm, s_norm, wTitle, wSumm) ==
    IF terms = <<>> THEN 0
    ELSE LET term == [i \in DOMAIN terms[1] |-> LowerChar(terms[1][i])]
         IN  (IF Contains(t_norm, term) THEN wTitle ELSE 0)
             + (IF Contains(s_norm, term) THEN wSumm ELSE 0)
             + SumBothFields(Tail(terms), t_norm, s_norm, wTitle, wSumm)

\* variant: the two weights change places
RECURSIVE SumTermsSwapped(_, _, _, _, _)
SumTermsSwapped(terms, t_norm, s_norm, wTitle, wSumm) ==
    IF terms = <<>> THEN 0
    ELSE LET term == [i \in DOMAIN terms[1] |-> LowerChar(terms[1][i])]
             pts  == IF Contains(t_norm, term) THEN wSumm
                     ELSE IF Contains(s_norm, term) THEN wTitle
                     ELSE 0
         IN  pts + SumTermsSwapped(Tail(terms), t_norm, s_norm, wTitle, wSumm)

RECURSIVE SumTerms(_, _, _, _, _)
SumTerms(terms, t_norm, s_norm, wTitle, wSumm) ==
    IF terms = <<>> THEN 0
    ELSE LET term == [i \in DOMAIN terms[1] |-> LowerChar(terms[1][i])]
             pts  == IF Contains(t_norm, term) THEN wTitle
                     ELSE IF Contains(s_norm, term) THEN wSumm
                     ELSE 0
         IN  pts + SumTerms(Tail(terms), t_norm, s_norm, wTitle, wSumm)

score_entry(title, summary) ==
    LET t_norm == normalize(title)
        s_norm == normalize(summary)
    IN  SumTerms(priority_boost, t_norm, s_norm, 8, 4)
        + SumTerms(KEYWORDS, t_norm, s_norm, 5, 2)
        + SumTerms(HOT_TERMS, t_norm, s_norm, 3, 1)

(***************************************************************************)
(* Configuration and program constants                                     *)
(***************************************************************************)

\* PER_FEED_CAP, MIN_SCORE: the defaults of the environment options
PER_FEED_CAP ==
    10

MIN_SCORE ==
    1

\* candidates[:20]
LOOKAHEAD ==
    20

\* time.time() - 172800 in is_duplicate_story
WINDOW_SECONDS ==
    172800

\* the caption limit and the hard clip of publish_to_channel
CAPTION_LIMIT ==
    1024

CLIP_LIMIT ==
    3900

\* MAX_PER_RUN and AUTO_POST are environment options (defaults 1 and false);
\* the model draws them from these
QUOTAS ==
    {1, 2}

\* the runs started in one behaviour
MaxRuns ==
    2

\* the events of the environment in one behaviour: faults (a fetch, a call of
\* the Generation Service, an image fetch or a send failing, the store failing
\* during one stretch of a run), steps of the clock, and operator commands (a
\* /post and the outcome of its send are one event)
MaxEvents ==
    2

\* the clock advances half a window per step
TickSeconds ==
    WINDOW_SECONDS \div 2

(***************************************************************************)
(* The feeds the Feed Fetcher returns (fixture)                            *)
(***************************************************************************)

\* the first three of RSS_FEEDS
RSS_FEEDS ==
    <<"Fakti.bg", "BTA Bulgaria", "BNT News">>

Sources ==
    DOMAIN RSS_FEEDS

TwoDigits(n) ==
    <<DigitChars[(n \div 10) + 1], DigitChars[(n % 10) + 1]>>

\* a feed entry: the fields run_rss_once reads (title, summary, link, id, guid),
\* the outputs the Generation Service may give for it (ai) and the image URL its
\* article page yields (img)
Entry(id, guid, link, title, summary, ai, img) ==
    [id |-> id, guid |-> guid, link |-> link, title |-> title,
     summary |-> summary, ai |-> ai, img |-> img]

\* entries the service always judges not relevant: "ceni nNN", guid "fNN"
Filler(n) ==
    Entry(<<>>, <<"f">> \o TwoDigits(n), <<"l">> \o TwoDigits(n),
          <<"c","e","n","i"," ","n">> \o TwoDigits(n), <<>>, {"skip"}, <<>>)

\* "Arest na ministar!"
EntryX ==
    Entry(<<"x">>, <<>>, <<"l","x">>,
          <<"A","r","e","s","t"," ","n","a"," ","m","i","n","i","s","t","a","r","!">>, <<>>,
          {"good", "skip", "nohead", "apierror"}, <<"a",".","b","g","/","f","o","t","o",".","j","p","g">>)

\* "arest   ministar SOFIA": all words of EntryX's title, another id
EntryY ==
    Entry(<<>>, <<"y">>, <<"l","y">>,
          <<"a","r","e","s","t"," "," "," ","m","i","n","i","s","t","a","r"," ","S","O","F","I","A">>, <<>>,
          {"good", "latin"}, <<"a",".","b","g","/","L","o","g","o",".","p","n","g">>)

\* "Tok: ceni", identified by its link alone; its message is a long one
EntryW ==
    Entry(<<>>, <<>>, <<"l","w">>,
          <<"T","o","k",":"," ","c","e","n","i">>, <<>>,
          {"long"}, <<>>)

\* "Boj: arest i kriza": the id of EntryX under another title, in another feed
EntryX2 ==
    Entry(<<"x">>, <<>>, <<"l","x","2">>,
          <<"B","o","j",":"," ","a","r","e","s","t"," ","i"," ","k","r","i","z","a">>, <<>>,
          {"good", "skip"}, <<"a",".","b","g","/","f","o","t","o",".","j","p","g">>)

\* "Sport", summary "utre": no term matches
EntryZ ==
    Entry(<<"z">>, <<>>, <<"l","z">>,
          <<"S","p","o","r","t">>, <<"u","t","r","e">>,
          {"good"}, <<>>)

\* no id, no guid, no link
EntryE ==
    Entry(<<>>, <<>>, <<>>,
          <<"a","r","e","s","t">>, <<>>,
          {"good"}, <<>>)

\* "Arest, kriza, boj": the eleventh entry of its feed
EntryV ==
    Entry(<<"v">>, <<>>, <<"l","v">>,
          <<"A","r","e","s","t",","," ","k","r","i","z","a",","," ","b","o","j">>, <<>>,
          {"good"}, <<>>)

FeedEntries ==
    << <<EntryX, EntryY, EntryW, EntryZ, EntryE>>
          \o [n \in 1..5 |-> Filler(n)],
       <<EntryX2>> \o [n \in 1..9 |-> Filler(10 + n)] \o <<EntryV>>,
       [n \in 1..4 |-> Filler(20 + n)] >>

(***************************************************************************)
(* Helpers of the pipeline                                                 *)
(***************************************************************************)

\* (entry.get("id") or entry.get("guid") or link or "")
extract_item_id(entry) ==
    IF entry.id # <<>> THEN entry.id
    ELSE IF entry.guid # <<>> THEN entry.guid
    ELSE entry.link

ItemIds ==
    UNION {{extract_item_id(FeedEntries[s][k]) : k \in DOMAIN FeedEntries[s]} :
              s \in Sources} \ {<<>>}

\* the texts of the fixture, and the values of the text functions on them,
\* computed once
FeedTexts ==
    UNION {{<<FeedEntries[s][k].title, FeedEntries[s][k].summary>> :
               k \in DOMAIN FeedEntries[s]} : s \in Sources}

FeedTitles ==
    {tx[1] : tx \in FeedTexts}

NormTable ==
    [title \in FeedTitles |-> normalize(title)]

SimTable ==
    [title1 \in FeedTitles, title2 \in {NormTable[t] : t \in FeedTitles} |->
        calc_similarity(title1, title2)]

ScoreTable ==
    [tx \in FeedTexts |-> score_entry(tx[1], tx[2])]

Normalized(title) ==
    IF title \in DOMAIN NormTable THEN NormTable[title] ELSE normalize(title)

Similarity(title1, title2) ==
    IF <<title1, title2>> \in DOMAIN SimTable
    THEN SimTable[title1, title2]
    ELSE calc_similarity(title1, title2)

Score(title, summary) ==
    IF <<title, summary>> \in DOMAIN ScoreTable
    THEN ScoreTable[<<title, summary>>]
    ELSE score_entry(title, summary)

\* the raw outputs of the Generation Service: the fields generate_post reads
\* (SKIP sentinel, Cyrillic and Latin letter counts, the HEADLINE and SUMMARY
\* blocks) and the length of the message built from them; "apierror" is the
\* call itself raising
RawOutput(name) ==
    CASE name = "skip"   -> [error |-> FALSE, skip |-> TRUE,  cyr |-> 0,   lat |-> 4,
                             headline |-> "",  summary |-> "",  len |-> 0]
      [] name = "good"   -> [error |-> FALSE, skip |-> FALSE, cyr |-> 200, lat |-> 30,
                             headline |-> "h", summary |-> "s", len |-> 400]
      [] name = "long"   -> [error |-> FALSE, skip |-> FALSE, cyr |-> 900, lat |-> 30,
                             headline |-> "h", summary |-> "s", len |-> 1500]
      [] name = "nohead" -> [error |-> FALSE, skip |-> FALSE, cyr |-> 200, lat |-> 23,
                             headline |-> "",  summary |-> "s", len |-> 0]
      [] name = "latin"  -> [error |-> FALSE, skip |-> FALSE, cyr |-> 70,  lat |-> 30,
                             headline |-> "h", summary |-> "s", len |-> 400]
      [] OTHER           -> [error |-> TRUE,  skip |-> FALSE, cyr |-> 0,   lat |-> 0,
                             headline |-> "",  summary |-> "",  len |-> 0]

\* (cyr / len(letters)) > 0.7, False without letters
is_bulgarian_enough(raw) ==
    /\ raw.cyr + raw.lat > 0
    /\ raw.cyr * 10 > 7 * (raw.cyr + raw.lat)

build_message_html(raw, source, link) ==
    [headline |-> raw.headline, summary |-> raw.summary,
     source |-> source, link |-> link, len |-> raw.len]

\* generate_post: "SKIP", a raised error, or the message
generate_post(source, entry, raw) ==
    IF raw.error THEN [kind |-> "Exception"]
    ELSE IF raw.skip THEN [kind |-> "SKIP"]
    ELSE IF ~is_bulgarian_enough(raw) THEN [kind |-> "ValueError"]
    ELSE IF raw.headline = "" \/ raw.summary = "" THEN [kind |-> "ValueError"]
    ELSE [kind |-> "ok", html |-> build_message_html(raw, source, entry.link)]

BLOCKED ==
    << <<"l","o","g","o">>, <<"i","c","o","n">>, <<"f","a","v","i","c","o","n">>,
       <<"p","l","a","c","e","h","o","l","d","e","r">>, <<"s","p","r","i","t","e">>,
       <<"b","a","d","g","e">>, <<"d","e","f","a","u","l","t">> >>

is_usable_image(image_url) ==
    LET u_low == [i \in DOMAIN image_url |-> LowerChar(image_url[i])]
        svg   == <<".","s","v","g">>
    IN  /\ image_url # <<>>
        /\ \A b \in DOMAIN BLOCKED : ~Contains(u_low, BLOCKED[b])
        /\ ~(Len(u_low) >= Len(svg)
             /\ SubSeq(u_low, Len(u_low) - Len(svg) + 1, Len(u_low)) = svg)

\* lines 606-609: the image of the article, dropped when it is not usable;
\* found is what fetch_article_image returned ("" after any failure)
ResolveImage(found) ==
    IF found # <<>> /\ ~is_usable_image(found) THEN <<>> ELSE found

\* hard_clip on the length of the text
hard_clip(len, max_len) ==
    IF len <= max_len THEN len ELSE (max_len - 20) + 15

\* how the Messaging Endpoint answers the calls of one publish_to_channel:
\* caption = send_photo with caption, photo = send_photo by URL, upload =
\* download_image_bytes and send_photo of the bytes, message = send_message
EndpointOk ==
    [caption |-> TRUE, photo |-> TRUE, upload |-> TRUE, message |-> TRUE]

EndpointFaults ==
    { [caption |-> FALSE, photo |-> FALSE, upload |-> FALSE, message |-> TRUE],
      [caption |-> FALSE, photo |-> FALSE, upload |-> FALSE, message |-> FALSE] }

\* variant: the errors of send_photo are not caught
publish_strict(text, image_url, ep) ==
    LET len == hard_clip(text.len, CLIP_LIMIT)
    IN  IF image_url # <<>> /\ len < CAPTION_LIMIT /\ ep.caption
        THEN [raised |-> FALSE, text |-> TRUE, photo |-> TRUE]
        ELSE IF image_url # <<>> /\ ~ep.photo
        THEN [raised |-> TRUE, text |-> FALSE, photo |-> FALSE]
        ELSE [raised |-> ~ep.message, text |-> ep.message,
              photo  |-> image_url # <<>>]

\* variant: the error of send_message is swallowed as those of send_photo are
publish_quietly(text, image_url, ep) ==
    [raised |-> FALSE,
     text   |-> (image_url # <<>> /\ hard_clip(text.len, CLIP_LIMIT) < CAPTION_LIMIT
                    /\ ep.caption) \/ ep.message,
     photo  |-> image_url # <<>> /\ (ep.caption \/ ep.photo \/ ep.upload)]

\* publish_to_channel: whether it raised, and what reached the channel
publish_to_channel(text, image_url, ep) ==
    LET len == hard_clip(text.len, CLIP_LIMIT)
    IN  IF image_url # <<>> /\ len < CAPTION_LIMIT /\ ep.caption
        THEN [raised |-> FALSE, text |-> TRUE, photo |-> TRUE]
        ELSE [raised |-> ~ep.message,
              text   |-> ep.message,
              photo  |-> image_url # <<>> /\ (ep.photo \/ ep.upload)]

(***************************************************************************)
(* The store: tables posted and drafts                                     *)
(***************************************************************************)

\* variant: a lookup that finds no row
never_posted(rows, item_id) ==
    FALSE

\* SELECT 1 FROM posted WHERE item_id=?
already_posted(rows, item_id) ==
    \E row \in rows : row.item_id = item_id

\* variant: calc_similarity(new_title, old_title) > threshold
AboveThreshold(sim) ==
    sim.num * 10 > 6 * sim.den

\* calc_similarity(new_title, old_title) >= threshold, threshold = 0.6
AtLeastThreshold(sim) ==
    sim.num * 10 >= 6 * sim.den

\* variant: any stored row makes the title a duplicate
any_row_duplicate(rows, new_title, t) ==
    rows # {}

is_duplicate_story(rows, new_title, t) ==
    \E row \in rows :
        /\ row.posted_at > t - WINDOW_SECONDS
        /\ row.title_norm # <<>>
        /\ AtLeastThreshold(Similarity(new_title, row.title_norm))

\* variant: a plain INSERT into a table without the primary key
insert_posted(rows, item_id, title, t) ==
    rows \cup {[item_id |-> item_id, posted_at |-> t, title_norm |-> Normalized(title)]}

\* INSERT OR REPLACE INTO posted: item_id is the primary key, the row in
\* conflict is deleted and the new one inserted
mark_posted(rows, item_id, title, t) ==
    {row \in rows : row.item_id # item_id}
        \cup {[item_id |-> item_id, posted_at |-> t, title_norm |-> Normalized(title)]}

\* variant: INSERT OR REPLACE with the id of the first row
save_draft_over(rows, msg_html, status, image_url, t) ==
    LET row == [created_at |-> t, text |-> msg_html, status |-> status,
                image_url |-> image_url]
    IN  IF rows = <<>> THEN <<row>> ELSE [rows EXCEPT ![1] = row]

\* INSERT INTO drafts: the id is the position of the row
save_draft(rows, msg_html, status, image_url, t) ==
    Append(rows, [created_at |-> t, text |-> msg_html, status |-> status,
                  image_url |-> image_url])

(***************************************************************************)
(* Collection and ranking (lines 562-588)                                  *)
(***************************************************************************)

\* a candidate (score, source, title, summ, link, item_id): the score and the
\* place (src, k) of the feed entry the other fields are read from
CandEntry(c) ==
    FeedEntries[c.src][c.k]

CandId(c) ==
    extract_item_id(CandEntry(c))

\* the entries of one source from the k-th on; a store call that raises ends
\* the source with what was appended before (except at line 584)
RECURSIVE CollectFrom(_, _, _, _, _, _)
CollectFrom(s, k, acc, rows, t, up) ==
    IF k > Min(Len(FeedEntries[s]), PER_FEED_CAP) THEN acc
    ELSE LET entry   == FeedEntries[s][k]
             item_id == extract_item_id(entry)
         IN  IF item_id = <<>> THEN CollectFrom(s, k + 1, acc, rows, t, up)
             ELSE IF ~up THEN acc
             ELSE IF already_posted(rows, item_id)
                  THEN CollectFrom(s, k + 1, acc, rows, t, up)
             ELSE IF is_duplicate_story(rows, entry.title, t)
                  THEN CollectFrom(s, k + 1, acc, rows, t, up)
             ELSE LET score == Score(entry.title, entry.summary)
                  IN  IF score >= MIN_SCORE
                      THEN CollectFrom(s, k + 1,
                               Append(acc, [score |-> score, src |-> s, k |-> k]),
                               rows, t, up)
                      ELSE CollectFrom(s, k + 1, acc, rows, t, up)

\* the candidates each source appends when its fetch succeeds (the store is
\* not written during collection, so a source's part does not depend on the
\* others)
RECURSIVE PerSource(_, _, _, _, _)
PerSource(s, parts, rows, t, up) ==
    IF s > Len(RSS_FEEDS) THEN parts
    ELSE PerSource(s + 1, Append(parts, CollectFrom(s, 1, <<>>, rows, t, up)),
                   rows, t, up)

\* variant: the first fetch_feed that raises ends the collection
RECURSIVE CollectUntilFailure(_, _, _, _)
CollectUntilFailure(s, acc, failed, parts) ==
    IF s > Len(RSS_FEEDS) \/ s \in failed THEN acc
    ELSE CollectUntilFailure(s + 1, acc \o parts[s], failed, parts)

\* the sources in order; failed = the sources whose fetch_feed raises
RECURSIVE CollectAll(_, _, _, _)
CollectAll(s, acc, failed, parts) ==
    IF s > Len(RSS_FEEDS) THEN acc
    ELSE CollectAll(s + 1, IF s \in failed THEN acc ELSE acc \o parts[s],
                    failed, parts)

\* variant: the candidate goes before those of its own score
InsertBeforeTies(sorted, c) ==
    LET p == Cardinality({j \in DOMAIN sorted : sorted[j].score > c.score})
    IN  SubSeq(sorted, 1, p) \o <<c>> \o SubSeq(sorted, p + 1, Len(sorted))

\* candidates.sort(key=lambda x: x[0], reverse=True): a stable sort, equal
\* scores keep the order of discovery; computed by stable insertion
InsertByScore(sorted, c) ==
    LET p == Cardinality({j \in DOMAIN sorted : sorted[j].score >= c.score})
    IN  SubSeq(sorted, 1, p) \o <<c>> \o SubSeq(sorted, p + 1, Len(sorted))

RECURSIVE SortInto(_, _, _)
SortInto(sorted, cands, i) ==
    IF i > Len(cands) THEN sorted
    ELSE SortInto(InsertByScore(sorted, cands[i]), cands, i + 1)

SortByScore(cands) ==
    SortInto(<<>>, cands, 1)

Collect(failed, parts) ==
    SortByScore(CollectAll(1, <<>>, failed, parts))

(***************************************************************************)
(* State                                                                   *)
(***************************************************************************)

\* the two callers of run_rss_once: rss_job (the scheduled tick) and the
\* handler of /run
Runs ==
    {"job", "cmd"}

VARIABLES
    posted,     \* table posted: a set of rows [item_id, posted_at, title_norm]
    drafts,     \* table drafts: the rows in id order [created_at, text, status, image_url]
    now,        \* time.time(), in seconds
    cfg,        \* [AUTO_POST, MAX_PER_RUN], read from the environment at start
    run,        \* per caller: the position and the locals of run_rss_once
    cmd,        \* the /post handler suspended in publish_to_channel, if any
    cmd2,       \* a /post handler that started while the first was suspended
    failures,   \* table failures: the rows [source, item_id, stage] in id order
    calc,       \* the call of a text function under examination, if any
    h           \* history: what has happened so far (not program state)

vars ==
    <<posted, drafts, now, cfg, run, cmd, cmd2, failures, calc, h>>

IdleRun ==
    [pc |-> "idle", cands |-> <<>>, i |-> 0, count |-> 0,
     msg |-> <<>>, image |-> <<>>, did |-> 0,
     att |-> 0, made |-> 0, marked |-> {}, invalid |-> {}, sendFailed |-> {},
     stale |-> {}, fetched |-> {}, loss |-> "none",
     noImage |-> {}, imageAbort |-> {}, no |-> 0]

IdleCmd ==
    [pc |-> "idle", did |-> 0, text |-> <<>>, image |-> <<>>]

\* no text function is under examination
NoCall ==
    [fn |-> "none"]

NoRunYet ==
    [att |-> 0, made |-> 0, count |-> 0, n |-> 0, tried |-> {}, left |-> {},
     marked |-> {}, invalid |-> {}, sendFailed |-> {}, stale |-> {},
     loss |-> "none", noImage |-> {}, imageAbort |-> {}]

Init ==
    /\ posted = {}
    /\ drafts = <<>>
    /\ now = 0
    /\ cfg \in [AUTO_POST : BOOLEAN, MAX_PER_RUN : QUOTAS]
    /\ run = [r \in Runs |-> IdleRun]
    /\ cmd = IdleCmd
    /\ cmd2 = IdleCmd
    /\ failures = <<>>
    /\ calc = NoCall
    /\ h = [runs |-> 0, events |-> 0,
            draft |-> <<>>,
            chan |-> [id \in ItemIds |-> 0],
            marks |-> [id \in ItemIds |-> 0],
            first |-> {},
            handled |-> {},
            last |-> NoRunYet, unexplained |-> {}, overlaps |-> {}]

EventsLeft(hh) ==
    MaxEvents - hh.events

CandPlace(c) ==
    [src |-> c.src, k |-> c.k]

(***************************************************************************)
(* run_rss_once.  The code between two awaited sends holds the event loop, *)
(* so one step runs from the start of the run, or from the return of a     *)
(* send, to the next awaited send or to the end of the run.                *)
(***************************************************************************)

\* what one stretch of the run works on: the two tables, the locals of the run,
\* the history, and whether the statements on the store succeed (up)
World(p, d, rs, hh, up) ==
    [posted |-> p, drafts |-> d, rs |-> rs, h |-> hh, up |-> up]

\* history of a successful mark_posted(item_id, title)
Marked(hh, item_id, rows) ==
    [hh EXCEPT !.marks[item_id] = @ + 1,
               !.first = IF \E row \in @ : row.item_id = item_id THEN @
                         ELSE @ \cup {row \in rows : row.item_id = item_id}]

\* history of a successful save_draft for item_id
Drafted(hh, item_id, rows) ==
    [hh EXCEPT !.draft = Append(@,
        [item |-> item_id, row0 |-> rows[Len(rows)],
         terminal |-> IF rows[Len(rows)].status = "pending" THEN ""
                      ELSE rows[Len(rows)].status,
         again |-> FALSE, postOk |-> 0, sent |-> FALSE, raised |-> FALSE,
         from |-> [no |-> 0, src |-> 0, k |-> 0]])]

\* history: the row just saved is that of the candidate at rs.i of run rs.no
DraftedFrom(hh, rs) ==
    [hh EXCEPT !.draft[Len(hh.draft)].from =
        [no |-> rs.no, src |-> rs.cands[rs.i].src, k |-> rs.cands[rs.i].k]]

\* the for statement at line 591 and the break at line 592
LoopDone(rs) ==
    \/ rs.i > Min(Len(rs.cands), LOOKAHEAD)
    \/ rs.count >= cfg.MAX_PER_RUN

\* the end of one iteration: continue, the end of the body, or the except clause
Advance(rs, counted) ==
    [rs EXCEPT !.pc = "loop", !.i = @ + 1,
               !.count = IF counted THEN @ + 1 ELSE @,
               !.msg = <<>>, !.image = <<>>, !.did = 0]

\* history of a statement on the store raising in the run (loss: "none" so
\* far, "raised", or "went on" once a candidate was attempted afterwards)
StoreRaised(rs) ==
    [rs EXCEPT !.loss = IF @ = "none" THEN "raised" ELSE @]

Attempted(rs) ==
    [rs EXCEPT !.att = @ + 1,
               !.loss = IF @ = "none" THEN "none" ELSE "went on"]

\* run_rss_once returns
Finished(w) ==
    World(w.posted, w.drafts, IdleRun,
          [w.h EXCEPT !.last =
              [att |-> w.rs.att, made |-> w.rs.made, count |-> w.rs.count,
               n |-> Len(w.rs.cands),
               tried |-> {CandPlace(w.rs.cands[j]) : j \in 1..w.rs.att},
               left |-> {CandPlace(w.rs.cands[j]) :
                            j \in (w.rs.att + 1)..Len(w.rs.cands)},
               marked |-> w.rs.marked, invalid |-> w.rs.invalid,
               sendFailed |-> w.rs.sendFailed, stale |-> w.rs.stale,
               loss |-> w.rs.loss, noImage |-> w.rs.noImage,
               imageAbort |-> w.rs.imageAbort]],
          w.up)

\* lines 595-620 for the candidate at rs.i, up to the awaited send or to the end
\* of the iteration: generate_post answers from the raw output `name`, and
\* fetch_article_image returns `found`
Iterate(w, name, found) ==
    LET rs      == w.rs
        c       == rs.cands[rs.i]
        entry   == CandEntry(c)
        item_id == CandId(c)
        rs1     == Attempted(rs)
        res     == generate_post(RSS_FEEDS[c.src], entry, RawOutput(name))
        cost    == (IF res.kind = "Exception" THEN 1 ELSE 0)
                   + (IF res.kind = "ok" /\ found # entry.img THEN 1 ELSE 0)
        hf      == [w.h EXCEPT !.events = @ + cost]
        image   == ResolveImage(found)
    IN  CASE res.kind = "SKIP" /\ w.up ->
               LET rows == mark_posted(w.posted, item_id, entry.title, now)
               IN  World(rows, w.drafts,
                         Advance([rs1 EXCEPT !.marked = @ \cup {item_id}], FALSE),
                         [Marked(hf, item_id, rows) EXCEPT !.handled = @ \cup {item_id}],
                         w.up)
          [] res.kind = "SKIP" /\ ~w.up ->
               World(w.posted, w.drafts, Advance(StoreRaised(rs1), FALSE), hf, w.up)
          [] res.kind = "ValueError" ->
               World(w.posted, w.drafts,
                     Advance([rs1 EXCEPT !.invalid = @ \cup {item_id}], FALSE),
                     hf, w.up)
          [] res.kind = "Exception" ->
               World(w.posted, w.drafts, Advance(rs1, FALSE), hf, w.up)
          [] res.kind = "ok" /\ cfg.AUTO_POST ->
               World(w.posted, w.drafts,
                     [rs1 EXCEPT !.pc = "await_publish", !.msg = res.html,
                                 !.image = image],
                     hf, w.up)
          [] res.kind = "ok" /\ ~cfg.AUTO_POST /\ w.up ->
               LET rows == save_draft(w.drafts, res.html, "pending", image, now)
               IN  World(w.posted, rows,
                         [rs1 EXCEPT !.pc = "await_notify", !.msg = res.html,
                                     !.image = image, !.did = Len(rows),
                                     !.made = @ + 1,
                                     !.noImage = IF found # entry.img
                                                 THEN @ \cup {CandPlace(c)} ELSE @],
                         DraftedFrom(Drafted(hf, item_id, rows), rs), w.up)
          [] res.kind = "ok" /\ ~cfg.AUTO_POST /\ ~w.up ->
               World(w.posted, w.drafts, Advance(StoreRaised(rs1), FALSE), hf, w.up)

\* what the Generation Service and the article page may answer for the candidate
\* at rs.i: one of the raw outputs of the entry ("apierror", the call raising,
\* is a fault) and the image of the page or, as a fault, none
Answers(w) ==
    LET entry == CandEntry(w.rs.cands[w.rs.i])
        left  == EventsLeft(w.h)
    IN  {a \in entry.ai \X {entry.img, <<>>} :
            LET res == generate_post("", entry, RawOutput(a[1]))
            IN  /\ res.kind = "Exception" => left > 0
                /\ res.kind # "ok" => a[2] = entry.img
                /\ a[2] # entry.img => left > 0}

\* the loop of lines 591-628 from the current position to the next awaited send
\* or to the return of the run: the worlds it may end in
RECURSIVE LoopFrom(_)
LoopFrom(w) ==
    IF w.rs.pc # "loop" THEN {w}
    ELSE IF LoopDone(w.rs) THEN {Finished(w)}
    ELSE UNION {LoopFrom(Iterate(w, a[1], a[2])) : a \in Answers(w)}

\* history of an image failure of the candidate at rs.i in auto-publish mode:
\* fetch_article_image found nothing where the page has a usable image, or no
\* send of the photo succeeded.  noImage: the text was delivered all the same;
\* imageAbort: publish_to_channel raised although send_message would succeed
ImageOutcome(rs, entry, ep, out) ==
    LET failed == \/ rs.image = <<>> /\ ResolveImage(entry.img) # <<>>
                  \/ rs.image # <<>> /\ ~out.photo
        place  == CandPlace(rs.cands[rs.i])
    IN  [rs EXCEPT !.noImage = IF failed /\ out.text THEN @ \cup {place} ELSE @,
                   !.imageAbort = IF failed /\ out.raised /\ ep.message
                                  THEN @ \cup {place} ELSE @]

\* lines 613-624 in auto-publish mode after publish_to_channel returned or
\* raised: save_draft(status="posted"), mark_posted, processed_count += 1
AfterPublish(w, ep) ==
    LET c       == w.rs.cands[w.rs.i]
        entry   == CandEntry(c)
        item_id == CandId(c)
        out     == publish_to_channel(w.rs.msg, w.rs.image, ep)
        rs      == ImageOutcome(w.rs, entry, ep, out)
        hf      == [w.h EXCEPT !.events = @ + (IF ep = EndpointOk THEN 0 ELSE 1),
                               !.chan[item_id] = @ + 1]
    IN  CASE out.raised ->
               World(w.posted, w.drafts,
                     Advance([rs EXCEPT !.sendFailed = @ \cup {item_id}], FALSE),
                     hf, w.up)
          [] ~out.raised /\ w.up ->
               LET rows == save_draft(w.drafts, rs.msg, "posted", rs.image, now)
                   seen == mark_posted(w.posted, item_id, entry.title, now)
               IN  World(seen, rows,
                         Advance([rs EXCEPT !.made = @ + 1,
                                            !.marked = @ \cup {item_id}], TRUE),
                         [DraftedFrom(Drafted(Marked(hf, item_id, seen), item_id, rows), rs)
                             EXCEPT !.handled = @ \cup {item_id},
                                    !.draft[Len(rows)].sent = out.text], w.up)
          [] ~out.raised /\ ~w.up ->
               World(w.posted, w.drafts,
                     Advance(StoreRaised([rs EXCEPT !.made = @ + 1]), FALSE),
                     hf, w.up)

\* lines 620-624 in manual mode after the editor notification returned (sent) or
\* raised: mark_posted, processed_count += 1
AfterNotify(w, sent) ==
    LET rs      == w.rs
        c       == rs.cands[rs.i]
        entry   == CandEntry(c)
        item_id == CandId(c)
        hf      == [w.h EXCEPT !.events = @ + (IF sent THEN 0 ELSE 1)]
    IN  CASE ~sent ->
               World(w.posted, w.drafts,
                     Advance([rs EXCEPT !.sendFailed = @ \cup {item_id}], FALSE),
                     hf, w.up)
          [] sent /\ w.up ->
               LET seen == mark_posted(w.posted, item_id, entry.title, now)
               IN  World(seen, w.drafts,
                         Advance([rs EXCEPT !.marked = @ \cup {item_id}], TRUE),
                         [Marked(hf, item_id, seen) EXCEPT !.handled = @ \cup {item_id}],
                         w.up)
          [] sent /\ ~w.up ->
               World(w.posted, w.drafts, Advance(StoreRaised(rs), FALSE), hf, w.up)

\* the step ends in world w
Becomes(r, w) ==
    /\ posted' = w.posted
    /\ drafts' = w.drafts
    /\ run' = [run EXCEPT ![r] = w.rs]
    /\ h' = w.h

\* history of the candidates the last run left unattempted, when the next run
\* has collected cands: those collected again, and those that are not although
\* their source was fetched and the store answered
Recollected(left, cands) ==
    {e \in left : \E j \in DOMAIN cands : CandPlace(cands[j]) = e}

Missed(left, cands, fetched) ==
    {e \in left \ Recollected(left, cands) : e.src \in fetched}

\* candidate c, once recorded as seen, filters entry e at collection: the same
\* item_id (line 575) or a similar title (line 578)
Explains(c, e) ==
    \/ CandId(c) = CandId(e)
    \/ AtLeastThreshold(Similarity(CandEntry(e).title, Normalized(CandEntry(c).title)))

Unexplained(last, missed) ==
    {e \in missed : ~\E c \in last.tried : CandId(c) \in last.marked /\ Explains(c, e)}

\* whether the statements on the store succeed during one stretch of a run
\* (sqlite raising, e.g. "database is locked", is a fault)
StoreStates(hh) ==
    {TRUE} \cup (IF EventsLeft(hh) > 0 THEN {FALSE} ELSE {})

StoreCost(up) ==
    IF up THEN 0 ELSE 1

\* lines 561-590 and the loop up to its first awaited send: collect from every
\* source (failed = the sources whose fetch raises), rank, walk the candidates.
\* upC: the store answers during collection; upL: and during the loop;
\* fetched: the sources whose entries were read and filtered.  overlaps: the
\* runs suspended in a send when this one starts
RunBegins(r) ==
    /\ run[r].pc = "idle"
    /\ h.runs < MaxRuns
    /\ \E upL \in StoreStates(h) :
       \E upC \in {TRUE, upL} :
       \E parts \in {PerSource(1, <<>>, posted, now, upC)} :
       \E failed \in SUBSET Sources :
        /\ Cardinality(failed) + StoreCost(upL) <= EventsLeft(h)
        /\ \E cands \in {Collect(failed, parts)} :
           \E fetched \in {IF upC THEN Sources \ failed ELSE {}} :
           \E w \in LoopFrom(World(posted, drafts,
                        [IdleRun EXCEPT !.pc = "loop", !.cands = cands, !.i = 1,
                            !.stale = {CandId(cands[j]) : j \in DOMAIN cands}
                                          \cap h.handled,
                            !.fetched = fetched, !.no = h.runs + 1],
                        [h EXCEPT !.runs = @ + 1,
                                  !.events = @ + Cardinality(failed) + StoreCost(upL),
                                  !.unexplained =
                                      Unexplained(h.last,
                                          Missed(h.last.left, cands, fetched)),
                                  !.overlaps = @ \cup
                                      {<<run[q].no, h.runs + 1>> :
                                          q \in {p \in Runs : run[p].pc # "idle"}}],
                        upL)) :
               Becomes(r, w)
    /\ UNCHANGED <<now, cfg, cmd, cmd2, failures, calc>>

\* a run that starts while no other run and no handler is suspended
StartRun(r) ==
    /\ \A q \in Runs : run[q].pc = "idle"
    /\ cmd.pc = "idle"
    /\ RunBegins(r)

\* publish_to_channel of the run returns or raises; the loop goes on
PublishReturns(r) ==
    /\ run[r].pc = "await_publish"
    /\ \E up \in StoreStates(h) :
       \E hu \in {[h EXCEPT !.events = @ + StoreCost(up)]} :
       \E ep \in {EndpointOk} \cup (IF EventsLeft(hu) > 0 THEN EndpointFaults ELSE {}) :
       \E w \in LoopFrom(AfterPublish(World(posted, drafts, run[r], hu, up), ep)) :
           Becomes(r, w)
    /\ UNCHANGED <<now, cfg, cmd, cmd2, failures, calc>>

\* the editor notification of the run returns or raises; the loop goes on
NotifyReturns(r) ==
    /\ run[r].pc = "await_notify"
    /\ \E up \in StoreStates(h) :
       \E hu \in {[h EXCEPT !.events = @ + StoreCost(up)]} :
       \E sent \in {TRUE} \cup (IF EventsLeft(hu) > 0 THEN {FALSE} ELSE {}) :
       \E w \in LoopFrom(AfterNotify(World(posted, drafts, run[r], hu, up), sent)) :
           Becomes(r, w)
    /\ UNCHANGED <<now, cfg, cmd, cmd2, failures, calc>>

(***************************************************************************)
(* Operator commands                                                       *)
(***************************************************************************)

\* the ids an operator may type: those of the rows and one that names no row
DraftArgs ==
    1..(Len(drafts) + 1)

\* the handlers run one at a time, and here between the runs
HandlerMayStart ==
    /\ cmd.pc = "idle"
    /\ \A r \in Runs : run[r].pc = "idle"
    /\ EventsLeft(h) > 0

\* variant: SELECT text, image_url FROM drafts WHERE id=?
AnyRow(rows, did) ==
    did \in DOMAIN rows

\* SELECT text, image_url FROM drafts WHERE id=? AND status='pending'
PendingRow(rows, did) ==
    did \in DOMAIN rows /\ rows[did].status = "pending"

\* cmd_post, lines 634-641: the SELECT, then publish_to_channel is awaited
CmdPostBegin(did) ==
    /\ HandlerMayStart
    /\ cmd' = IF PendingRow(drafts, did)
              THEN [pc |-> "await_publish", did |-> did,
                    text |-> drafts[did].text, image |-> drafts[did].image_url]
              ELSE cmd
    /\ h' = IF did \in DOMAIN drafts
            THEN [h EXCEPT !.events = @ + 1,
                           !.draft[did].again = @ \/ drafts[did].status = "posted"]
            ELSE h
    /\ UNCHANGED <<posted, drafts, now, cfg, run, cmd2, failures, calc>>

\* variant: the UPDATE is made whether or not the send raised
StatusPostedAnyway(status, raised) ==
    "posted"

\* lines 641-642: the UPDATE follows the awaited send, and an exception raised
\* by the send leaves the handler before it
StatusAfterPost(status, raised) ==
    IF raised THEN status ELSE "posted"

\* cmd_post, lines 641-645: publish_to_channel returns or raises, then
\* UPDATE drafts SET status='posted' WHERE id=?
CmdPostEnd ==
    /\ cmd.pc = "await_publish"
    /\ \E ep \in {EndpointOk} \cup EndpointFaults :
        LET out == publish_to_channel(cmd.text, cmd.image, ep)
        IN  /\ drafts' = [drafts EXCEPT
                             ![cmd.did].status = StatusAfterPost(@, out.raised)]
            /\ h' = IF out.raised
                    THEN [h EXCEPT !.draft[cmd.did].raised = TRUE]
                    ELSE [h EXCEPT !.draft[cmd.did].postOk = @ + 1,
                                   !.draft[cmd.did].terminal =
                                       IF @ = "" THEN "posted" ELSE @]
    /\ cmd' = IdleCmd
    /\ UNCHANGED <<posted, now, cfg, run, cmd2, failures, calc>>

\* cmd_skip: UPDATE drafts SET status='skipped' WHERE id=?
CmdSkip(did) ==
    /\ HandlerMayStart
    /\ drafts' = IF did \in DOMAIN drafts
                 THEN [drafts EXCEPT ![did].status = "skipped"]
                 ELSE drafts
    /\ h' = IF did \in DOMAIN drafts
            THEN [h EXCEPT !.events = @ + 1,
                           !.draft[did].terminal = IF @ = "" THEN "skipped" ELSE @]
            ELSE h
    /\ UNCHANGED <<posted, now, cfg, run, cmd, cmd2, failures, calc>>

(***************************************************************************)
(* Environment: the clock                                                  *)
(***************************************************************************)

\* time.time() is read only to stamp rows and to compare with their stamps, so
\* time starts to pass once there is a row
Tick ==
    /\ cmd.pc = "idle"
    /\ \A r \in Runs : run[r].pc = "idle"
    /\ EventsLeft(h) > 0
    /\ posted # {} \/ drafts # <<>>
    /\ now' = now + TickSeconds
    /\ h' = [h EXCEPT !.events = @ + 1]
    /\ UNCHANGED <<posted, drafts, cfg, run, cmd, cmd2, failures, calc>>

(***************************************************************************)
(* Specification: runs do not overlap, handlers run one at a time.  The     *)
(* runs are those of rss_job; a /run between two of them executes the same *)
(* run_rss_once on the same store.                                         *)
(***************************************************************************)

Next ==
    \/ StartRun("job")
    \/ PublishReturns("job")
    \/ NotifyReturns("job")
    \/ \E did \in DraftArgs : CmdPostBegin(did)
    \/ CmdPostEnd
    \/ \E did \in DraftArgs : CmdSkip(did)
    \/ Tick

Spec ==
    Init /\ [][Next]_vars

(***************************************************************************)
(* Specification of overlapping runs: rss_job is a task of the job queue   *)
(* and /run a handler, both on the one event loop and the one connection;  *)
(* while one run is suspended in a send the other may start and go on.     *)
(* Neither caller overlaps itself.                                         *)
(***************************************************************************)

ConcurrentNext ==
    \/ \E r \in Runs : RunBegins(r)
    \/ \E r \in Runs : PublishReturns(r)
    \/ \E r \in Runs : NotifyReturns(r)

Concurrent ==
    Init /\ [][ConcurrentNext]_vars

(***************************************************************************)
(* Specification of overlapping /post commands: a second cmd_post starts   *)
(* while the first is suspended in publish_to_channel, as it does when the *)
(* Application processes updates concurrently.  cmd_post opens its own     *)
(* connection and holds no lock across the await.                          *)
(***************************************************************************)

\* cmd_post, lines 634-641, started while the first handler awaits its send
CmdPostOverlaps(did) ==
    /\ cmd.pc = "await_publish"
    /\ cmd2.pc = "idle"
    /\ EventsLeft(h) > 0
    /\ did \in DOMAIN drafts
    /\ cmd2' = IF PendingRow(drafts, did)
               THEN [pc |-> "await_publish", did |-> did,
                     text |-> drafts[did].text, image |-> drafts[did].image_url]
               ELSE cmd2
    /\ h' = [h EXCEPT !.events = @ + 1,
                      !.draft[did].again = @ \/ drafts[did].status = "posted"]
    /\ UNCHANGED <<posted, drafts, now, cfg, run, cmd, failures, calc>>

\* cmd_post, lines 641-645, of the second handler
CmdPostOverlapEnd ==
    /\ cmd2.pc = "await_publish"
    /\ \E ep \in {EndpointOk} \cup EndpointFaults :
        LET out == publish_to_channel(cmd2.text, cmd2.image, ep)
        IN  /\ drafts' = [drafts EXCEPT
                             ![cmd2.did].status = StatusAfterPost(@, out.raised)]
            /\ h' = IF out.raised
                    THEN [h EXCEPT !.draft[cmd2.did].raised = TRUE]
                    ELSE [h EXCEPT !.draft[cmd2.did].postOk = @ + 1,
                                   !.draft[cmd2.did].terminal =
                                       IF @ = "" THEN "posted" ELSE @]
    /\ cmd2' = IdleCmd
    /\ UNCHANGED <<posted, now, cfg, run, cmd, failures, calc>>

OverlapNext ==
    \/ StartRun("job")
    \/ PublishReturns("job")
    \/ NotifyReturns("job")
    \/ \E did \in DraftArgs : CmdPostBegin(did)
    \/ CmdPostEnd
    \/ \E did \in DraftArgs : CmdPostOverlaps(did)
    \/ CmdPostOverlapEnd

Overlap ==
    Init /\ [][OverlapNext]_vars

(***************************************************************************)
(* The text functions on their own: score_entry, calc_similarity and       *)
(* is_duplicate_story are called on texts drawn from a vocabulary          *)
(***************************************************************************)

\* the words the examined titles are made of: terms of the three lists, words
\* of no list, a word of two letters, upper case and punctuation
Vocabulary ==
    << <<"A","r","e","s","t","!">>,
       <<"k","r","i","z","a">>,
       <<"c","e","n","i">>,
       <<"t","o","k">>,
       <<"S","p","o","r","t">>,
       <<"m","i","n","i","s","t","a","r">>,
       <<"n","a">> >>

RECURSIVE Pick(_, _)
Pick(S, i) ==
    IF i > Len(Vocabulary) THEN <<>>
    ELSE IF i \in S THEN <<Vocabulary[i]>> \o Pick(S, i + 1)
    ELSE Pick(S, i + 1)

\* the titles: any choice of words of the vocabulary, a space between them
Titles ==
    {JoinWords(Pick(S, 1)) : S \in SUBSET DOMAIN Vocabulary}

\* the second text: a summary for score_entry, a stored title for the others
OtherTexts ==
    { <<>>,
      <<"n","a">>,
      <<"b","o","j",","," ","a","r","e","s","t">>,
      <<"K","r","i","z","a",":"," ","c","e","n","i"," ","i"," ","t","o","k">>,
      <<"a","r","e","s","t"," ","k","r","i","z","a"," ","c","e","n","i"," ","s","p","o","r","t"," ","s","o","f","i","a">>,
      <<"k","r","i","z","a"," ","c","e","n","i"," ","t","o","k"," ","m","i","n","i","s","t","a","r">> }

\* the age of the stored row: one second inside the window, at its edge, and
\* one second outside
Ages ==
    {WINDOW_SECONDS - 1, WINDOW_SECONDS, WINDOW_SECONDS + 1}

Inputs ==
    [fn : {"none"}, title : Titles, other : OtherTexts, age : Ages, fresh : BOOLEAN]

\* the title with a term added to it as a further word
Added(title, term) ==
    IF title = <<>> THEN term ELSE title \o <<" ">> \o term

\* the rows of posted is_duplicate_story is examined on: the stored title
\* recorded at time 0 and, if fresh, a row with another title recorded now
StoredRows(c) ==
    {[item_id |-> <<"o">>, posted_at |-> 0, title_norm |-> normalize(c.other)]}
        \cup (IF c.fresh
              THEN {[item_id |-> <<"f">>, posted_at |-> c.age,
                     title_norm |-> <<"s","o","f","i","a">>]}
              ELSE {})

CallsInit ==
    /\ posted = {}
    /\ drafts = <<>>
    /\ now = 0
    /\ cfg = [AUTO_POST |-> FALSE, MAX_PER_RUN |-> 1]
    /\ run = [r \in Runs |-> IdleRun]
    /\ cmd = IdleCmd
    /\ cmd2 = IdleCmd
    /\ failures = <<>>
    /\ h = [runs |-> 0, events |-> 0, draft |-> <<>>,
            chan |-> [id \in ItemIds |-> 0], marks |-> [id \in ItemIds |-> 0],
            first |-> {}, handled |-> {}, last |-> NoRunYet, unexplained |-> {},
            overlaps |-> {}]
    /\ calc \in Inputs

\* the call of fn on the inputs drawn has returned out
Returned(fn, out) ==
    [fn |-> fn, title |-> calc.title, other |-> calc.other,
     age |-> calc.age, fresh |-> calc.fresh, out |-> out]

\* score_entry(title, summary)
ScoreCall ==
    /\ calc.fn = "none"
    /\ calc' = Returned("score_entry", score_entry(calc.title, calc.other))
    /\ UNCHANGED <<posted, drafts, now, cfg, run, cmd, cmd2, failures, h>>

\* score_entry on the title without and with a priority term
ScoreWithTermCall ==
    /\ calc.fn = "none"
    /\ \E i \in DOMAIN priority_boost :
        calc' = Returned("score_entry with term",
                    [term    |-> priority_boost[i],
                     without |-> score_entry(calc.title, calc.other),
                     with    |-> score_entry(Added(calc.title, priority_boost[i]),
                                             calc.other)])
    /\ UNCHANGED <<posted, drafts, now, cfg, run, cmd, cmd2, failures, h>>

\* calc_similarity(title, stored) and calc_similarity(stored, title)
SimilarityCall ==
    /\ calc.fn = "none"
    /\ calc' = Returned("calc_similarity",
                    [ab |-> calc_similarity(calc.title, calc.other),
                     ba |-> calc_similarity(calc.other, calc.title)])
    /\ UNCHANGED <<posted, drafts, now, cfg, run, cmd, cmd2, failures, h>>

\* is_duplicate_story(title) at time age
DuplicateCall ==
    /\ calc.fn = "none"
    /\ calc' = Returned("is_duplicate_story",
                    is_duplicate_story(StoredRows(calc), calc.title, calc.age))
    /\ UNCHANGED <<posted, drafts, now, cfg, run, cmd, cmd2, failures, h>>

CallsNext ==
    \/ ScoreCall
    \/ ScoreWithTermCall
    \/ SimilarityCall
    \/ DuplicateCall

Calls ==
    CallsInit /\ [][CallsNext]_vars

(***************************************************************************)
(* Properties                                                              *)
(***************************************************************************)

PostedIds ==
    {row.item_id : row \in posted}

RowsOf(id) ==
    {row \in posted : row.item_id = id}

DraftsOf(id) ==
    {d \in DOMAIN h.draft : h.draft[d].item = id}

Suspended ==
    {r \in Runs : run[r].pc # "idle"}

\* C1: nothing is posted twice: over non-overlapping runs, failures included,
\* at most one Draft row is created and at most one channel publication is
\* attempted for any stable_id
C1_NothingPostedTwice ==
    \A id \in ItemIds :
        /\ Cardinality(DraftsOf(id)) <= 1
        /\ h.chan[id] <= 1

\* C2: a Draft that reached a terminal status (posted or skipped) keeps that
\* status whatever /post or /skip commands follow
C2_TerminalStatusKept ==
    \A d \in DOMAIN drafts :
        h.draft[d].terminal # "" => drafts[d].status = h.draft[d].terminal

\* C3: over any sequence of /post commands on one draft the channel send
\* succeeds for it at most once; a send is in flight only for a draft that is
\* pending, so a /post on a draft already posted performs no send and leaves its
\* status; no command changes the text of a draft
C3_ApprovedOnce ==
    /\ \A d \in DOMAIN drafts :
        /\ h.draft[d].postOk <= 1
        /\ drafts[d].text = h.draft[d].row0.text
        /\ h.draft[d].postOk = 1 => drafts[d].status # "pending"
    /\ cmd.pc = "await_publish" => drafts[cmd.did].status = "pending"

\* a draft created pending was approved, and /post came again for it afterwards
C3_ApprovedThenRetried ==
    \E d \in DOMAIN drafts :
        /\ h.draft[d].row0.status = "pending"
        /\ h.draft[d].postOk = 1
        /\ h.draft[d].again
        /\ drafts[d].status = "posted"

\* C4: a candidate whose transformation raised a validation error is recorded
\* as seen in the same run
C4_InvalidRecordedSeen ==
    /\ h.last.invalid \subseteq PostedIds
    /\ \A r \in Suspended : run[r].invalid \subseteq PostedIds

\* C5: a candidate whose send (channel publication or editor notification)
\* raised is recorded as seen in the same run
C5_FailedSendRecordedSeen ==
    /\ h.last.sendFailed \subseteq PostedIds
    /\ \A r \in Suspended : run[r].sendFailed \subseteq PostedIds

\* C6: the posted table is a write-once ledger: at most one row per stable_id,
\* and the row first inserted for a stable_id stays as it was inserted
C6_WriteOnceLedger ==
    /\ \A id \in ItemIds : Cardinality(RowsOf(id)) <= 1
    /\ h.first \subseteq posted

\* the titles and ids mark_posted is applied to twice in C7
TwiceTitles ==
    {EntryX.title, EntryX2.title}

TwiceIds ==
    {extract_item_id(EntryX), extract_item_id(EntryW)}

\* C7: mark_posted is idempotent on the key: after one call for an id and after
\* every later one there is exactly one row for the id and already_posted is
\* true, both in the runs and when it is applied twice to the table at hand
C7_MarkIdempotent ==
    /\ \A id \in ItemIds :
        h.marks[id] >= 1 => Cardinality(RowsOf(id)) = 1 /\ already_posted(posted, id)
    /\ \A id \in TwiceIds : \A t1, t2 \in TwiceTitles :
        LET once  == mark_posted(posted, id, t1, now)
            twice == mark_posted(once, id, t2, now + 1)
        IN  /\ already_posted(once, id)
            /\ already_posted(twice, id)
            /\ Cardinality({row \in once : row.item_id = id}) = 1
            /\ Cardinality({row \in twice : row.item_id = id}) = 1

\* the runs called mark_posted twice for one id
C7_MarkedTwice ==
    \E id \in ItemIds : h.marks[id] >= 2 /\ Cardinality(RowsOf(id)) = 1

\* C8: an entry a run handled to the end (judged not relevant and recorded, or
\* drafted or published and recorded) is collected by no later run
C8_HandledNotCollected ==
    /\ h.last.stale = {}
    /\ \A r \in Runs : run[r].stale = {}

\* a second run, with every source fetched and the store answering, has gone
\* over the entries an earlier run handled, and collected other entries
C8_SecondRunOverHandled ==
    /\ h.runs >= 2
    /\ h.events = 0
    /\ \A r \in Runs : run[r].pc = "idle"
    /\ h.last.n > 0
    /\ h.handled \ h.last.marked # {}

\* C9: a run attempts at most 20 candidates and drafts or publishes at most
\* MAX_PER_RUN of them
C9_RunBounds ==
    /\ h.last.att <= LOOKAHEAD
    /\ h.last.made <= cfg.MAX_PER_RUN
    /\ \A r \in Runs : run[r].att <= LOOKAHEAD /\ run[r].made <= cfg.MAX_PER_RUN

\* the candidates the last run left unattempted that the run now suspended has
\* not collected, although it fetched their source and the store answered
MissedNow ==
    UNION {Missed(h.last.left, run[r].cands, run[r].fetched) : r \in Suspended}

\* C10 as stated: no row is written for a candidate the run did not attempt,
\* and every such candidate is collected again by the next run
C10_LeftoversCollectedAgain ==
    /\ \A e \in h.last.left : CandId(e) \notin h.last.marked
    /\ MissedNow = {}

\* C10 amended: a run records as seen only ids of candidates it attempted; a
\* candidate it did not attempt is collected again by the next run that fetches
\* its source, unless a candidate the run attempted and recorded has the same
\* id or a similar title
C10_LeftoversCollectedUnlessFiltered ==
    /\ h.last.marked \subseteq {CandId(c) : c \in h.last.tried}
    /\ \A r \in Suspended :
           run[r].marked \subseteq {CandId(run[r].cands[j]) : j \in 1..run[r].att}
    /\ h.unexplained = {}

\* the next run collected one leftover again and not another one
C10_SomeBackSomeFiltered ==
    /\ h.runs >= 2
    /\ MissedNow # {}
    /\ \E r \in Suspended : Recollected(h.last.left, run[r].cands) # {}

\* discovery order: earlier source first, earlier entry of the same source first
DiscoveredBefore(c, e) ==
    \/ c.src < e.src
    \/ c.src = e.src /\ c.k < e.k

\* C11: the candidates pooled across the sources are ranked by score
\* descending, candidates of equal score stay in discovery order, and they are
\* attempted in that order (the run stands at its att-th candidate); scores
\* [10, 10, 5] discovered in the order C, A, B stay in the order C, A, B
C11_RankedStable ==
    /\ \A r \in Suspended :
          LET cands == run[r].cands
          IN  /\ run[r].i = run[r].att
              /\ \A i, j \in DOMAIN cands : i < j =>
                    \/ cands[i].score > cands[j].score
                    \/ /\ cands[i].score = cands[j].score
                       /\ DiscoveredBefore(cands[i], cands[j])
    /\ LET C == [score |-> 10, src |-> 1, k |-> 1]
           A == [score |-> 10, src |-> 1, k |-> 2]
           B == [score |-> 5,  src |-> 2, k |-> 1]
       IN  /\ SortByScore(<<C, A, B>>) = <<C, A, B>>
           /\ SortByScore(<<B, C, A>>) = <<C, A, B>>

\* a run that has attempted two candidates of equal score, with candidates of
\* that score from another source further down
C11_TieAttempted ==
    \E r \in Suspended :
        LET cands == run[r].cands
        IN  \E i, j \in 1..run[r].att :
               /\ i < j
               /\ cands[i].score = cands[j].score
               /\ \E m, n \in DOMAIN cands :
                     /\ cands[m].score = cands[n].score
                     /\ cands[m].src # cands[n].src

\* the rows of posted when the suspended run r started: its own marks taken out
\* (an id it marked had no row then, or it would not have been collected)
RowsAtStart(r) ==
    {row \in posted : row.item_id \notin run[r].marked}

\* what source s alone produces from its feed on the store the run started with
ProducedBy(s, r) ==
    LET part == CollectFrom(s, 1, <<>>, RowsAtStart(r), now, TRUE)
    IN  {part[j] : j \in DOMAIN part}

\* C12: a source whose fetch fails does not abort the collection from the
\* others: whatever the set of failing sources, the candidates of a run are
\* exactly those the other sources produce, and a failing source contributes
\* none
C12_FailedSourceOnlyLosesItself ==
    \A r \in Suspended :
        LET cands == run[r].cands
        IN  {cands[j] : j \in DOMAIN cands}
                = UNION {ProducedBy(s, r) : s \in run[r].fetched}

\* a run whose first source failed and that holds candidates of a later one
C12_LaterSourceCollected ==
    \E r \in Suspended :
        /\ 1 \notin run[r].fetched
        /\ run[r].fetched # {}
        /\ \E j \in DOMAIN run[r].cands : run[r].cands[j].src > 1

\* C13: when a statement on the store raises during a run, the run aborts: no
\* further candidate is transformed, drafted or published in that run
C13_StoreLossEndsRun ==
    /\ \A r \in Suspended : run[r].loss # "went on"
    /\ h.last.loss # "went on"

\* the non-fatal errors of the run that returned last, by stage: the
\* candidates whose generated text failed validation and those whose send raised
ErrorsOfLastRun ==
    {[item_id |-> id, stage |-> "validation"] : id \in h.last.invalid}
        \cup {[item_id |-> id, stage |-> "delivery"] : id \in h.last.sendFailed}

\* C14: every non-fatal error in a run appends a row to the failures table
\* that carries the item_id and the stage of the failure
C14_ErrorsRecorded ==
    \A e \in ErrorsOfLastRun :
        \E i \in DOMAIN failures :
            failures[i].item_id = e.item_id /\ failures[i].stage = e.stage

\* C15: in auto-publish mode no Draft row is ever pending: every row is created
\* in status posted, and only for a candidate whose channel send was made in the
\* same step of the run and delivered the text without error
C15_AutoRowsBornPosted ==
    cfg.AUTO_POST =>
        \A d \in DOMAIN drafts :
            /\ drafts[d].status # "pending"
            /\ h.draft[d].row0.status = "posted"
            /\ h.draft[d].sent
            /\ h.chan[h.draft[d].item] >= 1

\* auto-publish mode: one candidate's send raised and it has no row, another
\* one's send delivered and it has a row
C15_OneFailedOnePosted ==
    /\ cfg.AUTO_POST
    /\ drafts # <<>>
    /\ \E id \in ItemIds : h.chan[id] >= 1 /\ DraftsOf(id) = {}

\* the entries of a term list that occur in the normalized title, and those
\* that do not but occur in the normalized summary
InTitle(terms, title) ==
    {i \in DOMAIN terms : Contains(normalize(title), terms[i])}

InSummaryOnly(terms, title, summary) ==
    {i \in DOMAIN terms \ InTitle(terms, title) :
        Contains(normalize(summary), terms[i])}

\* the contribution of one list: every entry counts once, for one field
Points(terms, title, summary, wTitle, wSumm) ==
    wTitle * Cardinality(InTitle(terms, title))
        + wSumm * Cardinality(InSummaryOnly(terms, title, summary))

\* C16: score_entry sums, over the priority, standard and hot term lists, a
\* contribution per term: the title weight (8, 5, 3) when the term occurs in
\* the normalized title, otherwise the summary weight (4, 2, 1) when it occurs
\* in the normalized summary, otherwise 0; no term counts for both fields, and
\* the result is an integer >= 0
C16_ScorePerTerm ==
    calc.fn = "score_entry" =>
        /\ calc.out = Points(priority_boost, calc.title, calc.other, 8, 4)
                      + Points(KEYWORDS, calc.title, calc.other, 5, 2)
                      + Points(HOT_TERMS, calc.title, calc.other, 3, 1)
        /\ calc.out \in Nat

\* a call with a term in both fields, a term in the summary only, and a term
\* in the title only
C16_BothFieldsSeen ==
    /\ calc.fn = "score_entry"
    /\ \E i \in InTitle(priority_boost, calc.title) :
          Contains(normalize(calc.other), priority_boost[i])
    /\ InSummaryOnly(priority_boost, calc.title, calc.other) # {}
    /\ \E i \in InTitle(HOT_TERMS, calc.title) :
          ~Contains(normalize(calc.other), HOT_TERMS[i])

\* C17: score monotonicity: for every title, summary and priority term, the
\* score of the title with the term added is at least the score of the same
\* title and summary without it
C17_AddedTermNeverLowers ==
    calc.fn = "score_entry with term" =>
        calc.out.with >= calc.out.without

\* the term was in the summary only, and adding it to the title raises the
\* score by the difference of the weights of the lists that hold it
C17_SummaryTermPromoted ==
    /\ calc.fn = "score_entry with term"
    /\ Contains(normalize(calc.other), calc.out.term)
    /\ ~Contains(normalize(calc.title), calc.out.term)
    /\ calc.title # <<>>
    /\ calc.out.without > 0
    /\ calc.out.with > calc.out.without

\* the distinct normalized words of a text that are longer than 2 characters
LongWords(text) ==
    LET words == Split(normalize(text))
    IN  {w \in {words[i] : i \in DOMAIN words} : Len(w) > 2}

\* calc_similarity(a, b) = |A \cap B| / min(|A|, |B|), and 0 when A or B is
\* empty; the result is in [0, 1] and the same for (b, a)
MinOverlap(sim, A, B) ==
    /\ sim.ab.den > 0
    /\ IF A = {} \/ B = {}
       THEN sim.ab.num = 0
       ELSE sim.ab.num * Min(Cardinality(A), Cardinality(B))
                = Cardinality(A \cap B) * sim.ab.den
    /\ 0 <= sim.ab.num /\ sim.ab.num <= sim.ab.den
    /\ sim.ab.num * sim.ba.den = sim.ba.num * sim.ab.den

\* C18 as stated: calc_similarity(a, b) = |A \cap B| / min(|A|, |B|) with A, B
\* the sets of distinct normalized words longer than 2 characters, 0 when
\* either set is empty; in [0, 1], symmetric, and 1 whenever every word of the
\* shorter title occurs in the longer one
C18_SimilarityAsStated ==
    calc.fn = "calc_similarity" =>
        LET A == LongWords(calc.title)
            B == LongWords(calc.other)
        IN  /\ MinOverlap(calc.out, A, B)
            /\ (A \subseteq B \/ B \subseteq A) => calc.out.ab.num = calc.out.ab.den

\* C18, amended: as above, and 1 whenever the smaller of the two sets is not
\* empty and all its words are in the other set
C18_SimilarityMinOverlap ==
    calc.fn = "calc_similarity" =>
        LET A == LongWords(calc.title)
            B == LongWords(calc.other)
        IN  /\ MinOverlap(calc.out, A, B)
            /\ (A # {} /\ B # {} /\ (A \subseteq B \/ B \subseteq A))
                   => calc.out.ab.num = calc.out.ab.den

\* a title with a short word whose long words are some, not all, of the stored
\* title's: similarity 1
C18_ShorterInsideLonger ==
    /\ calc.fn = "calc_similarity"
    /\ LongWords(calc.title) # {}
    /\ LongWords(calc.title) \subseteq LongWords(calc.other)
    /\ LongWords(calc.title) # LongWords(calc.other)
    /\ Contains(calc.title, <<"n","a">>)
    /\ calc.out.ab.num = calc.out.ab.den

\* the stored row was recorded less than 48 hours before the call, its title is
\* not empty, and the words it shares with the new title are at least 0.6 of
\* the smaller of the two sets of long words
RecentAndSimilar(row, title, t) ==
    LET A == LongWords(title)
        B == LongWords(row.title_norm)
    IN  /\ t - row.posted_at < WINDOW_SECONDS
        /\ row.title_norm # <<>>
        /\ A # {} /\ B # {}
        /\ 5 * Cardinality(A \cap B) >= 3 * Min(Cardinality(A), Cardinality(B))

\* C19: is_duplicate_story(title) is true exactly when some row of posted
\* recorded within the last 48 hours has a non-empty title whose similarity to
\* the new title is >= 0.6, the boundary included (3 shared words with a
\* smaller set of 5 make a duplicate); rows older than 48 hours never make one
C19_DuplicateWithinWindow ==
    calc.fn = "is_duplicate_story" =>
        (calc.out <=> \E row \in StoredRows(calc) :
                          RecentAndSimilar(row, calc.title, calc.age))

\* 3 shared words with a smaller set of 5, the row one second inside the
\* window: a duplicate
C19_ThreeOfFive ==
    /\ calc.fn = "is_duplicate_story"
    /\ calc.age = WINDOW_SECONDS - 1
    /\ Cardinality(LongWords(calc.title) \cap LongWords(calc.other)) = 3
    /\ Cardinality(LongWords(calc.title)) = 5
    /\ Cardinality(LongWords(calc.other)) = 5
    /\ calc.out

\* C20: approve publishes before it transitions: a pending draft becomes
\* posted through /post only after the send to the channel has returned
\* without error (while the send is awaited it is still pending); if the send
\* raises, the draft remains pending and can be approved again
C20_PostedAfterSend ==
    /\ cmd.pc = "await_publish" => drafts[cmd.did].status = "pending"
    /\ \A d \in DOMAIN drafts :
          /\ (h.draft[d].row0.status = "pending" /\ drafts[d].status = "posted")
                 => h.draft[d].postOk >= 1
          /\ (h.draft[d].raised /\ h.draft[d].postOk = 0 /\ h.draft[d].terminal = "")
                 => PendingRow(drafts, d)

\* the send of a /post raised, the draft stayed pending, and a second /post
\* published it
C20_RetriedAfterFailure ==
    \E d \in DOMAIN drafts :
        /\ h.draft[d].raised
        /\ h.draft[d].postOk = 1
        /\ drafts[d].status = "posted"

\* a step of run_rss_once: a run starts, or a suspended run goes on; the other
\* steps are those of the command handlers and of the clock
RunStep ==
    \/ h'.runs # h.runs
    \/ \E r \in Runs : run[r].pc # "idle"

OwnershipKept ==
    /\ ~RunStep => /\ posted' = posted
                   /\ Len(drafts') = Len(drafts)
    /\ RunStep => \A d \in DOMAIN drafts :
                      /\ d \in DOMAIN drafts'
                      /\ drafts'[d] = drafts[d]

\* C21: store ownership: the operator commands /post and /skip never insert a
\* Draft row and never write the posted table, and a run never changes the
\* status, text or image_url of a Draft row that exists already
C21_StoreOwnership ==
    [][OwnershipKept]_vars

\* a command has changed the status of a row, and a run has written posted and
\* added a row next to an existing one
C21_BothHaveWritten ==
    /\ \E d \in DOMAIN drafts : drafts[d].status # h.draft[d].row0.status
    /\ posted # {}
    /\ Len(drafts) >= 2

\* the image failures of the runs in sight: of a suspended run and of the run
\* that returned last
ImageLess ==
    h.last.noImage \cup UNION {run[r].noImage : r \in Runs}

ImageAborted ==
    h.last.imageAbort \cup UNION {run[r].imageAbort : r \in Runs}

\* C22: an image failure never fails the post: when fetch_article_image fails
\* or the photo cannot be sent, the candidate is still drafted (its row has no
\* image) or its text is still delivered to the channel, and the failure does
\* not end the candidate's iteration as an error
C22_ImageFailureKeepsPost ==
    /\ ImageAborted = {}
    /\ \A r \in Suspended :
          (run[r].pc = "await_notify"
               /\ CandPlace(run[r].cands[run[r].i]) \in run[r].noImage)
          => /\ PendingRow(drafts, run[r].did)
             /\ drafts[run[r].did].image_url = <<>>

\* a candidate whose image could not be fetched or sent and whose text was
\* drafted or delivered, in a run that has returned
C22_PostedWithoutImage ==
    /\ h.last.noImage # {}
    /\ \E p \in h.last.noImage : CandId(p) \in h.last.marked

\* C23: when a /run executes concurrently with a scheduled run, interleaving
\* at the awaited sends, no stable_id is drafted or published by both runs
C23_NoItemByBothRuns ==
    \A d1, d2 \in DOMAIN h.draft :
        <<h.draft[d1].from.no, h.draft[d2].from.no>> \in h.overlaps
            => h.draft[d1].item # h.draft[d2].item

EntryOf(d) ==
    FeedEntries[h.draft[d].from.src][h.draft[d].from.k]

\* two entries are duplicates of each other: the same stable id, or titles of
\* similarity >= 0.6
DuplicateEntries(e1, e2) ==
    \/ extract_item_id(e1) = extract_item_id(e2)
    \/ AtLeastThreshold(Similarity(e1.title, Normalized(e2.title)))

\* C25: within one run with MAX_PER_RUN >= 2 no two candidates that are
\* duplicates of each other are both drafted or published
C25_NoDuplicatesInOneRun ==
    cfg.MAX_PER_RUN >= 2 =>
        \A d1, d2 \in DOMAIN h.draft :
            (d1 # d2 /\ h.draft[d1].from.no = h.draft[d2].from.no)
                => ~DuplicateEntries(EntryOf(d1), EntryOf(d2))

====
